---- MODULE Spec2Model ----
(***************************************************************************)
(* Model of go.jpap.org/mapper: a Mapper associates opaque pointer-sized   *)
(* Keys with Go values behind a sync.RWMutex, and hands out synthetic      *)
(* "counting-pointer" keys from an atomic counter (src/mapper.go).         *)
(*                                                                         *)
(* Each goroutine is a thread with a program counter.  A step is one       *)
(* atomic piece of a method: the atomic add of MapValue, the acquisition   *)
(* of mux, or a critical section together with its Unlock.                 *)
(***************************************************************************)
EXTENDS Integers, FiniteSets, Sequences, TLC

\* ------------------------------------------------------------------ bounds
\* Width of uintptr in bits (32 or 64 in the program, scaled down).
WordBits == 3
\* Goroutines using the one Mapper.
NThreads == 2
\* Distinct Go values that are mapped.
NValues == 2
\* Calls made in one behaviour of Spec.
MaxCalls == 3
\* Largest pointer or handle a caller passes in.
MaxAddr == 3

\* ---------------------------------------------------------------- constants
countingPointerBit == 1

RECURSIVE Pow2(_)
Pow2(n) == IF n = 0 THEN 1 ELSE 2 * Pow2(n - 1)

\* uintptr arithmetic is modulo WordSize.
WordSize == Pow2(WordBits)
Word == 0 .. (WordSize - 1)
Addrs == {x \in Word : x <= MaxAddr}
Threads == 1 .. NThreads
Values == 1 .. NValues

\* x & countingPointerBit and x | countingPointerBit on a word.
\* Faulty variant: the counting-pointer bit is not set.
OrBitNone(x) == x

AndBit(x) == (x % (2 * countingPointerBit)) - (x % countingPointerBit)
OrBit(x) == (x - AndBit(x)) + countingPointerBit

\* type Key struct { v uintptr }
Key(x) == [v |-> x]
Keys == {Key(x) : x \in Word}

\* func (k Key) Handle() uintptr
Handle(k) == k.v

\* func KeyFromHandle(handle uintptr) Key
KeyFromHandle(handle) == Key(handle)

\* Faulty variants: the alignment test is missing; the Key is tagged like a counter.
KeyFromPtrNeverPanics(ptr) == FALSE
KeyFromPtrTagged(ptr) == Key((ptr - (ptr % 2)) + 1)

\* func KeyFromPtr(ptr unsafe.Pointer) Key: the panic is the result "unaligned".
KeyFromPtrPanics(ptr) == AndBit(ptr) # 0
KeyFromPtr(ptr) == Key(ptr)

\* key := Key{uintptr(ptr)} of GetPtr and key := Key{handle} of DeleteHandle.
KeyOfBits(bits) == Key(bits)

\* Faulty variant: the counter advances by twice the step.
AddUintptrDouble(old, delta) == (old + 2 * delta) % WordSize

\* Faulty variant: the counter is read, not advanced.
AddUintptrLost(old, delta) == old

\* atomic.AddUintptr(&mapper.atomicKey, 2): the new value of the counter.
AddUintptr(old, delta) == (old + delta) % WordSize

\* Faulty variant: the Key is made of the counter before the add.
MapValueKeyOld(newCounter) == Key(OrBit((newCounter + WordSize - 2) % WordSize))

\* Key{atomic.AddUintptr(&mapper.atomicKey, 2) | countingPointerBit}
MapValueKey(newCounter) == Key(OrBit(newCounter))

\* if key.v == 0 { panic("key space exhausted") }
MapValuePanics(k) == k.v = 0

\* goValue, ok := mapper.m[key]
MapIndex(mm, k) ==
  IF k \in DOMAIN mm THEN [ok |-> TRUE, val |-> mm[k]]
                     ELSE [ok |-> FALSE, val |-> 0]

\* Faulty variants: an entry that exists is kept; nothing is deleted.
MapStoreIfAbsent(mm, k, v) ==
  [x \in (DOMAIN mm) \cup {k} |-> IF x \in DOMAIN mm THEN mm[x] ELSE v]
MapDeleteNothing(mm, k) == mm

\* mapper.m[key] = goValue
MapStore(mm, k, v) == [x \in (DOMAIN mm) \cup {k} |-> IF x = k THEN v ELSE mm[x]]

\* delete(mapper.m, key)
MapDelete(mm, k) == [x \in (DOMAIN mm) \ {k} |-> mm[x]]

\* the nil map, and the map of make(map[Key]interface{})
EmptyMap == [x \in {} |-> 0]

\* ------------------------------------------------------------------- state
VARIABLES
  m,          \* Mapper.m: the entries, a function on the mapped Keys
  mNil,       \* Mapper.m == nil
  atomicKey,  \* Mapper.atomicKey
  mux,        \* Mapper.mux: the writer (0: none) and the set of readers
  pc,         \* where each thread is in the method it runs
  call,       \* each thread's current (or last) call: op, arg, key, val, out
  quota,      \* calls that may still be started in this behaviour
  origin,     \* history: for each Key, the method that last set it and the
              \* value that method's caller was given the Key for
  peer        \* a second Mapper of the program, with the calls made on it

shared == <<m, mNil, atomicKey>>
vars == <<m, mNil, atomicKey, mux, pc, call, quota, origin, peer>>

NoOut == [kind |-> "none", v |-> 0]
Void == [kind |-> "void", v |-> 0]
Panic(msg) == [kind |-> msg, v |-> 0]
KeyOut(k) == [kind |-> "key", v |-> Handle(k)]
ValueOut(v) == [kind |-> "value", v |-> v]

NoCall == [op |-> "none", arg |-> 0, key |-> Key(0), val |-> 0, out |-> NoOut]

\* A Key that no call has set since the Mapper was created or cleared, a Key
\* that a Delete removed (with the value it held, 0 if it held none), and a
\* Key that method `by` mapped to v.
Unset == [by |-> "none", val |-> 0]
Deleted(old) == [by |-> "Delete", val |-> old]
SetBy(by, v) == [by |-> by, val |-> v]

\* The zero value of Mapper, as the id-th Mapper of the program, with no call
\* made on it.
ZeroMapper(id) ==
  [id |-> id, m |-> EmptyMap, mNil |-> TRUE, atomicKey |-> 0,
   mux |-> [w |-> 0, r |-> {}],
   pc |-> [t \in Threads |-> "idle"],
   call |-> [t \in Threads |-> NoCall],
   origin |-> [k \in Keys |-> Unset]]

\* var G Mapper: the zero value.
Init ==
  /\ m = EmptyMap
  /\ mNil = TRUE
  /\ atomicKey = 0
  /\ mux = [w |-> 0, r |-> {}]
  /\ pc = [t \in Threads |-> "idle"]
  /\ call = [t \in Threads |-> NoCall]
  /\ quota = MaxCalls
  /\ origin = [k \in Keys |-> Unset]
  /\ peer = ZeroMapper(2)

\* ----------------------------------------------------------------- helpers
Begin(t, c) ==
  /\ pc[t] = "idle"
  /\ call' = [call EXCEPT ![t] = c]
  /\ quota > 0
  /\ quota' = quota - 1

Goto(t, label) == pc' = [pc EXCEPT ![t] = label]

Return(t, result) ==
  /\ pc' = [pc EXCEPT ![t] = "idle"]
  /\ call' = [call EXCEPT ![t].out = result]

\* ------------------------------------------------------------------- calls
\* func (mapper *Mapper) MapPair(key Key, goValue interface{}), with any Key
\* the package lets a caller build.
MapPair(t) ==
  \E h \in Addrs, v \in Values :
    /\ Begin(t, [op |-> "MapPair", arg |-> h, key |-> KeyFromHandle(h),
                 val |-> v, out |-> NoOut])
    /\ Goto(t, "doMap_Lock")
    /\ UNCHANGED <<shared, mux, origin, peer>>

\* Faulty variant: the pair is stored before the alignment of ptr is tested.
MapPtrPairStoreFirst(t) ==
  \E ptr \in Addrs, v \in Values :
    IF KeyFromPtrPanics(ptr)
      THEN /\ Begin(t, [op |-> "MapPtrPair", arg |-> ptr, key |-> Key(ptr),
                        val |-> v, out |-> Panic("unaligned")])
           /\ Goto(t, "idle")
           /\ m' = MapStore(m, Key(ptr), v)
           /\ mNil' = FALSE
           /\ UNCHANGED <<atomicKey, mux, origin, peer>>
      ELSE /\ Begin(t, [op |-> "MapPtrPair", arg |-> ptr, key |-> KeyFromPtr(ptr),
                        val |-> v, out |-> NoOut])
           /\ Goto(t, "doMap_Lock")
           /\ UNCHANGED <<shared, mux, origin, peer>>

\* func (mapper *Mapper) MapPtrPair(ptr unsafe.Pointer, goValue interface{}) Key
MapPtrPair(t) ==
  \E ptr \in Addrs, v \in Values :
    /\ IF KeyFromPtrPanics(ptr)
         THEN /\ Begin(t, [op |-> "MapPtrPair", arg |-> ptr, key |-> Key(ptr),
                           val |-> v, out |-> Panic("unaligned")])
              /\ Goto(t, "idle")
         ELSE /\ Begin(t, [op |-> "MapPtrPair", arg |-> ptr, key |-> KeyFromPtr(ptr),
                           val |-> v, out |-> NoOut])
              /\ Goto(t, "doMap_Lock")
    /\ UNCHANGED <<shared, mux, origin, peer>>

\* Faulty variant: the counter is one variable of the package, shared by
\* every Mapper.
MapValueOfGlobal(t, v) ==
    LET n == AddUintptr(atomicKey, 2)
        k == MapValueKey(n)
    IN /\ atomicKey' = n
       /\ peer' = [peer EXCEPT !.atomicKey = n]
       /\ IF MapValuePanics(k)
            THEN /\ Begin(t, [op |-> "MapValue", arg |-> 0, key |-> k,
                              val |-> v, out |-> Panic("exhausted")])
                 /\ Goto(t, "idle")
            ELSE /\ Begin(t, [op |-> "MapValue", arg |-> 0, key |-> k,
                              val |-> v, out |-> NoOut])
                 /\ Goto(t, "doMap_Lock")
       /\ UNCHANGED <<m, mNil, mux, origin>>

\* func (mapper *Mapper) MapValue(goValue interface{}) Key: the atomic add and
\* the wrap-around test.
MapValueOf(t, v) ==
    LET n == AddUintptr(atomicKey, 2)
        k == MapValueKey(n)
    IN /\ atomicKey' = n
       /\ IF MapValuePanics(k)
            THEN /\ Begin(t, [op |-> "MapValue", arg |-> 0, key |-> k,
                              val |-> v, out |-> Panic("exhausted")])
                 /\ Goto(t, "idle")
            ELSE /\ Begin(t, [op |-> "MapValue", arg |-> 0, key |-> k,
                              val |-> v, out |-> NoOut])
                 /\ Goto(t, "doMap_Lock")
       /\ UNCHANGED <<m, mNil, mux, origin, peer>>

MapValue(t) == \E v \in Values : MapValueOf(t, v)

\* N goroutines that each call MapValue once, goroutine t with the value t.
MapValueOnce(t) ==
  /\ call[t].op = "none"
  /\ MapValueOf(t, t)

\* func (mapper *Mapper) Get(key Key) (goValue interface{})
GetOf(t, handles) ==
  \E h \in handles :
    /\ Begin(t, [op |-> "Get", arg |-> h, key |-> KeyFromHandle(h),
                 val |-> 0, out |-> NoOut])
    /\ Goto(t, "Get_RLock")
    /\ UNCHANGED <<shared, mux, origin, peer>>

Get(t) == GetOf(t, Addrs)

\* Once every goroutine's MapValue has returned, each looks up the Key its
\* own call returned.
GetOwn(t) ==
  /\ \A u \in Threads : call[u].op # "none" /\ pc[u] \notin {"doMap_Lock", "doMap_store"}
  /\ call[t].op = "MapValue"
  /\ call[t].out.kind = "key"
  /\ GetOf(t, {call[t].out.v})

\* func (mapper *Mapper) GetPtr(ptr unsafe.Pointer) (goValue interface{})
GetPtr(t) ==
  \E ptr \in Addrs :
    /\ Begin(t, [op |-> "GetPtr", arg |-> ptr, key |-> KeyOfBits(ptr),
                 val |-> 0, out |-> NoOut])
    /\ Goto(t, "Get_RLock")
    /\ UNCHANGED <<shared, mux, origin, peer>>

\* func (mapper *Mapper) GetHandle(handle uintptr) (goValue interface{})
GetHandle(t) ==
  \E handle \in Addrs :
    /\ Begin(t, [op |-> "GetHandle", arg |-> handle, key |-> KeyFromHandle(handle),
                 val |-> 0, out |-> NoOut])
    /\ Goto(t, "Get_RLock")
    /\ UNCHANGED <<shared, mux, origin, peer>>

\* func (mapper *Mapper) Delete(key Key)
Delete(t) ==
  \E h \in Addrs :
    /\ Begin(t, [op |-> "Delete", arg |-> h, key |-> KeyFromHandle(h),
                 val |-> 0, out |-> NoOut])
    /\ Goto(t, "Delete_Lock")
    /\ UNCHANGED <<shared, mux, origin, peer>>

\* Faulty variant: DeletePtr skips KeyFromPtr's alignment check, as GetPtr does.
DeletePtrUnchecked(t) ==
  \E ptr \in Addrs :
    /\ Begin(t, [op |-> "DeletePtr", arg |-> ptr, key |-> KeyOfBits(ptr),
                 val |-> 0, out |-> NoOut])
    /\ Goto(t, "Delete_Lock")
    /\ UNCHANGED <<shared, mux, origin, peer>>

\* func (mapper *Mapper) DeletePtr(ptr unsafe.Pointer)
DeletePtr(t) ==
  \E ptr \in Addrs :
    /\ IF KeyFromPtrPanics(ptr)
         THEN /\ Begin(t, [op |-> "DeletePtr", arg |-> ptr, key |-> Key(ptr),
                           val |-> 0, out |-> Panic("unaligned")])
              /\ Goto(t, "idle")
         ELSE /\ Begin(t, [op |-> "DeletePtr", arg |-> ptr, key |-> KeyFromPtr(ptr),
                           val |-> 0, out |-> NoOut])
              /\ Goto(t, "Delete_Lock")
    /\ UNCHANGED <<shared, mux, origin, peer>>

\* func (mapper *Mapper) DeleteHandle(handle uintptr)
DeleteHandle(t) ==
  \E handle \in Addrs :
    /\ Begin(t, [op |-> "DeleteHandle", arg |-> handle, key |-> KeyOfBits(handle),
                 val |-> 0, out |-> NoOut])
    /\ Goto(t, "Delete_Lock")
    /\ UNCHANGED <<shared, mux, origin, peer>>

\* func (mapper *Mapper) Clear()
Clear(t) ==
  /\ Begin(t, [op |-> "Clear", arg |-> 0, key |-> Key(0), val |-> 0, out |-> NoOut])
  /\ Goto(t, "Clear_Lock")
  /\ UNCHANGED <<shared, mux, origin, peer>>

\* ------------------------------------------------------------------- steps
\* mapper.mux.Lock() of doMap, Delete and Clear
LockTarget(label) ==
  CASE label = "doMap_Lock" -> "doMap_store"
    [] label = "Delete_Lock" -> "Delete_delete"
    [] label = "Clear_Lock" -> "Clear_nil"

Lock(t) ==
  /\ pc[t] \in {"doMap_Lock", "Delete_Lock", "Clear_Lock"}
  /\ mux.w = 0
  /\ mux.r = {}
  /\ mux' = [mux EXCEPT !.w = t]
  /\ Goto(t, LockTarget(pc[t]))
  /\ UNCHANGED <<shared, call, quota, origin, peer>>

\* mapper.mux.RLock() of Get
RLock(t) ==
  /\ pc[t] = "Get_RLock"
  /\ mux.w = 0
  /\ mux' = [mux EXCEPT !.r = @ \cup {t}]
  /\ Goto(t, "Get_index")
  /\ UNCHANGED <<shared, call, quota, origin, peer>>

\* mux.Unlock() and mux.RUnlock()
Unlock(t) == mux' = [mux EXCEPT !.w = 0]
RUnlock(t) == mux' = [mux EXCEPT !.r = @ \ {t}]

\* Faulty variant: the call that finds the map nil makes it and stores nothing.
doMapMakeOnly(t) ==
  /\ pc[t] = "doMap_store"
  /\ mNil' = FALSE
  /\ m' = IF mNil THEN m ELSE MapStore(m, call[t].key, call[t].val)
  /\ Unlock(t)
  /\ Return(t, IF call[t].op = "MapPair" THEN Void ELSE KeyOut(call[t].key))
  /\ origin' = [origin EXCEPT ![call[t].key] =
                  IF call[t].op = "MapValue" /\ @.by = "MapValue"
                    THEN @
                    ELSE SetBy(call[t].op, call[t].val)]
  /\ UNCHANGED <<atomicKey, quota, peer>>

\* doMap: the critical section and its Unlock, then the return of the
\* method that called it (MapValue and MapPtrPair return the key).
doMap(t) ==
  /\ pc[t] = "doMap_store"
  /\ mNil' = FALSE
  /\ m' = MapStore(m, call[t].key, call[t].val)
  /\ Unlock(t)
  /\ Return(t, IF call[t].op = "MapPair" THEN Void ELSE KeyOut(call[t].key))
  /\ origin' = [origin EXCEPT ![call[t].key] =
                  IF call[t].op = "MapValue" /\ @.by = "MapValue"
                    THEN @
                    ELSE SetBy(call[t].op, call[t].val)]
  /\ UNCHANGED <<atomicKey, quota, peer>>

\* Faulty variant: Get panics on a missing key with the read lock still held.
GetIndexKeepsRLock(t) ==
  /\ pc[t] = "Get_index"
  /\ LET r == MapIndex(m, call[t].key)
     IN /\ Return(t, IF r.ok THEN ValueOut(r.val) ELSE Panic("notmapped"))
        /\ IF r.ok THEN RUnlock(t) ELSE mux' = mux
  /\ UNCHANGED <<shared, quota, origin, peer>>

\* Faulty variant: a lookup that misses returns a not-found result.
GetResultTolerant(mm, k) ==
  LET r == MapIndex(mm, k)
  IN IF r.ok THEN ValueOut(r.val) ELSE [kind |-> "notfound", v |-> 0]

\* goValue, ok := mapper.m[key]; if !ok { panic(...) }; return
GetResult(mm, k) ==
  LET r == MapIndex(mm, k)
  IN IF r.ok THEN ValueOut(r.val) ELSE Panic("notmapped")

\* Get: the index under the read lock, RUnlock, and the panic or the return.
GetIndex(t) ==
  /\ pc[t] = "Get_index"
  /\ Return(t, GetResult(m, call[t].key))
  /\ RUnlock(t)
  /\ UNCHANGED <<shared, quota, origin, peer>>

\* Faulty variant: deleting a Key that has no entry panics, as Get does.
DeleteEntryStrict(t) ==
  /\ pc[t] = "Delete_delete"
  /\ m' = MapDelete(m, call[t].key)
  /\ Unlock(t)
  /\ Return(t, IF MapIndex(m, call[t].key).ok THEN Void ELSE Panic("notmapped"))
  /\ origin' = [origin EXCEPT ![call[t].key] =
                  Deleted(MapIndex(m, call[t].key).val)]
  /\ UNCHANGED <<mNil, atomicKey, quota, peer>>

\* Faulty variant: deleting a synthetic Key gives its counter value back.
DeleteEntryRecycles(t) ==
  /\ pc[t] = "Delete_delete"
  /\ m' = MapDelete(m, call[t].key)
  /\ atomicKey' = IF MapIndex(m, call[t].key).ok /\ AndBit(call[t].key.v) # 0
                    THEN AddUintptr(atomicKey, WordSize - 2)
                    ELSE atomicKey
  /\ Unlock(t)
  /\ Return(t, Void)
  /\ origin' = [origin EXCEPT ![call[t].key] =
                  Deleted(MapIndex(m, call[t].key).val)]
  /\ UNCHANGED <<mNil, quota, peer>>

\* Delete: the critical section and its Unlock.
DeleteEntry(t) ==
  /\ pc[t] = "Delete_delete"
  /\ m' = MapDelete(m, call[t].key)
  /\ Unlock(t)
  /\ Return(t, Void)
  /\ origin' = [origin EXCEPT ![call[t].key] =
                  Deleted(MapIndex(m, call[t].key).val)]
  /\ UNCHANGED <<mNil, atomicKey, quota, peer>>

\* Clear: mapper.m = nil
ClearNil(t) ==
  /\ pc[t] = "Clear_nil"
  /\ m' = EmptyMap
  /\ mNil' = TRUE
  /\ Goto(t, "Clear_zero")
  /\ origin' = [k \in Keys |-> Unset]
  /\ UNCHANGED <<atomicKey, mux, call, quota, peer>>

\* Faulty variant: Clear leaves the counter where it is.
ClearZeroKeepsCounter(t) ==
  /\ pc[t] = "Clear_zero"
  /\ Unlock(t)
  /\ Return(t, Void)
  /\ UNCHANGED <<m, mNil, atomicKey, quota, origin, peer>>

\* Clear: mapper.atomicKey = 0, and the Unlock
ClearZero(t) ==
  /\ pc[t] = "Clear_zero"
  /\ atomicKey' = 0
  /\ Unlock(t)
  /\ Return(t, Void)
  /\ UNCHANGED <<m, mNil, quota, origin, peer>>

Next ==
  \E t \in Threads :
    \/ MapPair(t) \/ MapPtrPair(t) \/ MapValue(t)
    \/ Get(t) \/ GetPtr(t) \/ GetHandle(t)
    \/ Delete(t) \/ DeletePtr(t) \/ DeleteHandle(t)
    \/ Clear(t)
    \/ Lock(t) \/ RLock(t) \/ doMap(t) \/ GetIndex(t)
    \/ DeleteEntry(t) \/ ClearNil(t) \/ ClearZero(t)

Spec == Init /\ [][Next]_vars

\* The steps of a call that goroutine t has begun. The scheduler runs every
\* goroutine that can run, and mux hands the lock to a waiter once it is
\* free, so a step that stays possible is taken.
Step(t) ==
  \/ Lock(t) \/ RLock(t) \/ doMap(t) \/ GetIndex(t)
  \/ DeleteEntry(t) \/ ClearNil(t) \/ ClearZero(t)

FairSpec == Spec /\ \A t \in Threads : WF_vars(Step(t))

\* A fresh Mapper on which MapValue is called until the counter has gone
\* round (WordSize / 2 calls reach zero, one more repeats the first key),
\* with lookups in between.
InitWrap ==
  /\ m = EmptyMap
  /\ mNil = TRUE
  /\ atomicKey = 0
  /\ mux = [w |-> 0, r |-> {}]
  /\ pc = [t \in Threads |-> "idle"]
  /\ call = [t \in Threads |-> NoCall]
  /\ quota = (WordSize \div 2) + 2
  /\ origin = [k \in Keys |-> Unset]
  /\ peer = ZeroMapper(2)

NextWrap ==
  \E t \in Threads :
    \/ MapValue(t) \/ Get(t)
    \/ Lock(t) \/ RLock(t) \/ doMap(t) \/ GetIndex(t)

SpecWrap == InitWrap /\ [][NextWrap]_vars

\* NThreads goroutines call MapValue at the same time, each once, on a
\* Mapper whose counter is wherever earlier (since deleted) mappings left it.
InitConc ==
  /\ m = EmptyMap
  /\ atomicKey \in {c \in Word : c % 2 = 0}
  /\ mNil = (atomicKey = 0)
  /\ mux = [w |-> 0, r |-> {}]
  /\ pc = [t \in Threads |-> "idle"]
  /\ call = [t \in Threads |-> NoCall]
  /\ quota = 2 * NThreads
  /\ origin = [k \in Keys |-> Unset]
  /\ peer = ZeroMapper(2)

NextConc ==
  \E t \in Threads :
    \/ MapValueOnce(t) \/ GetOwn(t)
    \/ Lock(t) \/ RLock(t) \/ doMap(t) \/ GetIndex(t)

SpecConc == InitConc /\ [][NextConc]_vars

\* Each goroutine works on Keys of its own: it maps its own aligned address
\* (MapPair, MapPtrPair) or a new synthetic Key (MapValue), then looks the
\* Key up once the mapping call has returned, then may delete it. The
\* lookup's record keeps the value the goroutine mapped.
OwnAddr(t) == 2 * (t - 1)

WriteOps == {"MapPair", "MapPtrPair", "MapValue"}

MapPairOwn(t) == MapPair(t) /\ call'[t].arg = OwnAddr(t)

MapPtrPairOwn(t) == MapPtrPair(t) /\ call'[t].arg = OwnAddr(t)

GetWritten(t) ==
  /\ call[t].op \in WriteOps
  /\ call[t].out.kind \in {"void", "key"}
  /\ Begin(t, [op |-> "Get", arg |-> Handle(call[t].key), key |-> call[t].key,
               val |-> call[t].val, out |-> NoOut])
  /\ Goto(t, "Get_RLock")
  /\ UNCHANGED <<shared, mux, origin, peer>>

DeleteOwn(t) ==
  /\ call[t].op = "Get"
  /\ Begin(t, [op |-> "Delete", arg |-> Handle(call[t].key), key |-> call[t].key,
               val |-> 0, out |-> NoOut])
  /\ Goto(t, "Delete_Lock")
  /\ UNCHANGED <<shared, mux, origin, peer>>

InitObserve ==
  /\ m = EmptyMap
  /\ mNil = TRUE
  /\ atomicKey = 0
  /\ mux = [w |-> 0, r |-> {}]
  /\ pc = [t \in Threads |-> "idle"]
  /\ call = [t \in Threads |-> NoCall]
  /\ quota = WordSize \div 2
  /\ origin = [k \in Keys |-> Unset]
  /\ peer = ZeroMapper(2)

NextObserve ==
  \E t \in Threads :
    \/ MapPairOwn(t) \/ MapPtrPairOwn(t) \/ MapValue(t)
    \/ GetWritten(t) \/ DeleteOwn(t)
    \/ Lock(t) \/ RLock(t) \/ doMap(t) \/ GetIndex(t) \/ DeleteEntry(t)

SpecObserve == InitObserve /\ [][NextObserve]_vars

\* Two Mappers in one program, each with its own goroutines calling it. The
\* variables m .. origin are the Mapper that takes the next step, peer is the
\* other one; Switch turns to the other Mapper, at any point of any call.
Switch ==
  /\ peer' = [id |-> 3 - peer.id, m |-> m, mNil |-> mNil, atomicKey |-> atomicKey,
              mux |-> mux, pc |-> pc, call |-> call, origin |-> origin]
  /\ m' = peer.m
  /\ mNil' = peer.mNil
  /\ atomicKey' = peer.atomicKey
  /\ mux' = peer.mux
  /\ pc' = peer.pc
  /\ call' = peer.call
  /\ origin' = peer.origin
  /\ UNCHANGED quota

NextTwo ==
  \/ Switch
  \/ \E t \in Threads :
       \/ MapPair(t) \/ MapPtrPair(t) \/ MapValue(t)
       \/ Get(t) \/ Delete(t) \/ Clear(t)
       \/ Lock(t) \/ RLock(t) \/ doMap(t) \/ GetIndex(t)
       \/ DeleteEntry(t) \/ ClearNil(t) \/ ClearZero(t)

InitTwo ==
  /\ m = EmptyMap
  /\ mNil = TRUE
  /\ atomicKey = 0
  /\ mux = [w |-> 0, r |-> {}]
  /\ pc = [t \in Threads |-> "idle"]
  /\ call = [t \in Threads |-> NoCall]
  /\ quota = MaxCalls - 1
  /\ origin = [k \in Keys |-> Unset]
  /\ peer = ZeroMapper(2)

SpecTwo == InitTwo /\ [][NextTwo]_vars

\* ------------------------------------------------- the sync.Map-based Mapper
\* type Mapper struct { m sync.Map }: m maps interface values, which are
\* equal when both their dynamic type and their value are. A key of m is the
\* dynamic type and the address of a pointer.
IfaceKey(type, ptr) == [type |-> type, ptr |-> ptr]

\* Addresses that &mapperKey{} can have (never nil).
Ptrs == Addrs \ {0}

\* mapper.m.Store(k, v), mapper.m.Load(k), mapper.m.Delete(k)
SyncMapStore(mm, k, v) == MapStore(mm, k, v)
SyncMapLoad(mm, k) == MapIndex(mm, k)
SyncMapDelete(mm, k) == MapDelete(mm, k)

PtrOut(ptr) == [kind |-> "ptr", v |-> ptr]

\* v, ok = mapper.m.Load((*mapperKey)(k)); if !ok { panic(...) }; return
PtrGetResult(mm, ptr) ==
  LET r == SyncMapLoad(mm, IfaceKey("*mapperKey", ptr))
  IN IF r.ok THEN ValueOut(r.val) ELSE Panic("invalidptr")

\* func NewMapper() *Mapper
NewMapper ==
  /\ m = EmptyMap
  /\ mNil = TRUE
  /\ atomicKey = 0
  /\ mux = [w |-> 0, r |-> {}]
  /\ pc = [t \in Threads |-> "idle"]
  /\ call = [t \in Threads |-> NoCall]
  /\ quota = MaxCalls
  /\ origin = [k \in Keys |-> Unset]
  /\ peer = ZeroMapper(2)

\* func (mapper *Mapper) New(v interface{}) unsafe.Pointer: k := &mapperKey{}
\* is an address that no live mapperKey has; the keys of m are live.
PtrNew(t) ==
  \E v \in Values, ptr \in Ptrs :
    /\ IfaceKey("*mapperKey", ptr) \notin DOMAIN m
    /\ Begin(t, [op |-> "New", arg |-> ptr, key |-> Key(ptr), val |-> v,
                 out |-> PtrOut(ptr)])
    /\ m' = SyncMapStore(m, IfaceKey("*mapperKey", ptr), v)
    /\ origin' = [origin EXCEPT ![Key(ptr)] = SetBy("New", v)]
    /\ UNCHANGED <<mNil, atomicKey, mux, pc, peer>>

\* func (mapper *Mapper) Get(k unsafe.Pointer) (v interface{})
PtrGet(t) ==
  \E ptr \in Ptrs :
    /\ Begin(t, [op |-> "Get", arg |-> ptr, key |-> Key(ptr), val |-> 0,
                 out |-> PtrGetResult(m, ptr)])
    /\ UNCHANGED <<shared, mux, pc, origin, peer>>

\* func (mapper *Mapper) Delete(k unsafe.Pointer): mapper.m.Delete(k), with k
\* as it is passed, an unsafe.Pointer.
PtrDelete(t) ==
  \E ptr \in Ptrs :
    /\ Begin(t, [op |-> "Delete", arg |-> ptr, key |-> Key(ptr), val |-> 0,
                 out |-> Void])
    /\ m' = SyncMapDelete(m, IfaceKey("unsafe.Pointer", ptr))
    /\ origin' = [origin EXCEPT ![Key(ptr)] =
                    Deleted(SyncMapLoad(m, IfaceKey("*mapperKey", ptr)).val)]
    /\ UNCHANGED <<mNil, atomicKey, mux, pc, peer>>

NextSync == \E t \in Threads : PtrNew(t) \/ PtrGet(t) \/ PtrDelete(t)

SpecSync == NewMapper /\ [][NextSync]_vars


\* ================================================================ properties
GetOps == {"Get", "GetPtr", "GetHandle"}
DeleteOps == {"Delete", "DeletePtr", "DeleteHandle"}

\* The step in which thread t's Get indexes the map and returns or panics,
\* the step in which its doMap stores and its method returns, the step in
\* which its Delete deletes and returns, and the step in which it starts a call.
Looked(t) == pc[t] = "Get_index" /\ pc'[t] = "idle"
Stored(t) == pc[t] = "doMap_store" /\ pc'[t] = "idle"
Removed(t) == pc[t] = "Delete_delete" /\ pc'[t] = "idle"
Began(t) ==
  /\ pc[t] = "idle"
  /\ quota' < quota
  /\ \A u \in Threads \ {t} : call'[u] = call[u]

\* A lookup of a Key that method `by` last set returns the value it set.
LooksUp(t, by) ==
  (Looked(t) /\ origin[call[t].key].by = by)
    => call'[t].out = ValueOut(origin[call[t].key].val)

TableUnchanged == m' = m /\ mNil' = mNil /\ atomicKey' = atomicKey

\* C1: once MapValue(v) has returned Key k, and until a Delete of k, a
\* MapPair or MapPtrPair on k or a Clear, every Get, GetHandle and GetPtr of
\* k's bits returns v, whatever else was called in between.
MapValueKeyKeepsValue ==
  [][\A t \in Threads : LooksUp(t, "MapValue")]_vars

\* C2: MapPtrPair(a, v) with an aligned a returns a Key whose Handle() is a,
\* and a later Get or GetPtr of it returns v until the Key is deleted,
\* re-mapped or the Mapper is cleared.
MapPtrPairMaps ==
  [][\A t \in Threads :
       /\ (Stored(t) /\ call[t].op = "MapPtrPair")
            => /\ call'[t].out.kind = "key"
               /\ call'[t].out.v = call[t].arg
               /\ MapIndex(m', KeyOfBits(call[t].arg)) = [ok |-> TRUE, val |-> call[t].val]
       /\ LooksUp(t, "MapPtrPair")]_vars

MapPtrPairLookedUp ==
  \E t \in Threads :
    /\ pc[t] = "idle"
    /\ call[t].op = "GetPtr"
    /\ call[t].out.kind = "value"
    /\ origin[call[t].key] = SetBy("MapPtrPair", call[t].out.v)

\* C3: when NThreads goroutines call MapValue concurrently, goroutine t with
\* the value t, the Keys returned are pairwise distinct, and once all calls
\* have returned a Get of each returned Key yields the value of its call.
HasKey(t) == call[t].out.kind = "key" \/ call[t].op = "Get"

ConcurrentMapValueDistinct ==
  /\ \A t, u \in Threads :
       (t # u /\ HasKey(t) /\ HasKey(u)) => call[t].key # call[u].key
  /\ \A t \in Threads :
       (call[t].op = "Get" /\ pc[t] = "idle") => call[t].out = ValueOut(t)

AllLookedUp ==
  \A t \in Threads :
    call[t].op = "Get" /\ pc[t] = "idle" /\ call[t].out.kind = "value"

\* C4: the MapValue call whose atomic add wraps the counter to zero panics
\* with "key space exhausted" and inserts nothing, so no MapValue call
\* returns a Key that an earlier MapValue call already returned.
WrapAroundPanics ==
  /\ \A t \in Threads :
       (call[t].op = "MapValue" /\ call[t].key = MapValueKey(0))
         => (call[t].out = Panic("exhausted") /\ pc[t] = "idle")
  /\ \A t \in Threads :
       (call[t].op = "MapValue" /\ pc[t] = "doMap_store")
         => origin[call[t].key].by # "MapValue"

\* C5: MapPtrPair with an address whose low bit is set panics with the
\* unaligned-pointer error and changes neither the entries nor the counter,
\* so the would-be handle is mapped after the call only if it was before.
UnalignedMapPtrPairFails ==
  [][\A t \in Threads :
       (Began(t) /\ call'[t].op = "MapPtrPair" /\ AndBit(call'[t].arg) # 0)
         => /\ call'[t].out = Panic("unaligned")
            /\ pc'[t] = "idle"
            /\ TableUnchanged
            /\ MapIndex(m', KeyOfBits(call'[t].arg)) = MapIndex(m, KeyOfBits(call'[t].arg))]_vars

UnalignedMapPtrPairSeen ==
  \E t \in Threads :
    /\ call[t].op = "MapPtrPair"
    /\ AndBit(call[t].arg) # 0
    /\ call[t].out = Panic("unaligned")
    /\ m # EmptyMap

\* C6: every Key MapValue returns has its low bit set (and is not zero),
\* every Key of MapPtrPair(a, v) or KeyFromPtr(a) has low bit 0 and equals a,
\* so no Key of MapValue equals a Key of MapPtrPair.
ReturnedKeysTagged ==
  /\ \A t \in Threads :
       (call[t].op = "MapValue" /\ call[t].out.kind = "key")
         => (AndBit(call[t].out.v) = countingPointerBit /\ call[t].out.v # 0)
  /\ \A t \in Threads :
       (call[t].op = "MapPtrPair" /\ call[t].out.kind = "key")
         => (AndBit(call[t].out.v) = 0 /\ call[t].out.v = call[t].arg)
  /\ \A t \in Threads :
       (call[t].op = "DeletePtr" /\ call[t].out.kind # "unaligned")
         => (AndBit(Handle(call[t].key)) = 0 /\ Handle(call[t].key) = call[t].arg)
  /\ \A t, u \in Threads :
       ( /\ call[t].op = "MapValue" /\ call[t].out.kind = "key"
         /\ call[u].op = "MapPtrPair" /\ call[u].out.kind = "key" )
         => call[t].out.v # call[u].out.v

BothKindsReturned ==
  \E t, u \in Threads :
    /\ call[t].op = "MapValue" /\ call[t].out.kind = "key"
    /\ call[u].op = "MapPtrPair" /\ call[u].out.kind = "key"

\* C7: the address-derived and the synthetic Keys never collide in the map:
\* with MapPair passed any Key, an entry with an odd Key was inserted by
\* MapValue, and no MapValue call replaces an entry that MapPair or
\* MapPtrPair inserted.
KeySpacesNeverCollide ==
  /\ \A k \in DOMAIN m :
       AndBit(Handle(k)) # 0 => origin[k].by = "MapValue"
  /\ \A t \in Threads :
       (call[t].op = "MapValue" /\ pc[t] = "doMap_store" /\ call[t].key \in DOMAIN m)
         => origin[call[t].key].by \notin {"MapPair", "MapPtrPair"}

\* C7, amended: an entry with an odd Key was inserted by MapValue or by a
\* MapPair that was passed an odd Key (KeyFromHandle tests no alignment), an
\* entry with an even Key by MapPair or MapPtrPair, and no MapValue call
\* replaces an entry with an even Key.
CheckedKeySpacesNeverCollide ==
  /\ \A k \in DOMAIN m :
       IF AndBit(Handle(k)) # 0
         THEN origin[k].by \in {"MapValue", "MapPair"}
         ELSE origin[k].by \in {"MapPtrPair", "MapPair"}
  /\ \A t \in Threads :
       (call[t].op = "MapValue" /\ pc[t] = "doMap_store")
         => AndBit(Handle(call[t].key)) # 0

BothKindsMapped ==
  \E j, k \in DOMAIN m :
    /\ origin[j].by = "MapValue"
    /\ origin[k].by = "MapPtrPair"

\* C8: after Delete(h) of a mapped Key h and before h is mapped again, Get,
\* GetHandle and GetPtr of h's bits panic with key-not-mapped, and the failed
\* lookup changes neither the entries nor the counter.
DeletedKeyNotMapped ==
  [][\A t \in Threads :
       (Looked(t) /\ origin[call[t].key].by = "Delete")
         => (call'[t].out = Panic("notmapped") /\ TableUnchanged)]_vars

DeletedKeyLookedUp ==
  \E t \in Threads :
    /\ pc[t] = "idle"
    /\ call[t].op \in GetOps
    /\ call[t].out = Panic("notmapped")
    /\ origin[call[t].key].by = "Delete"
    /\ origin[call[t].key].val # 0

\* C9: Delete of a Key that was never mapped or is already deleted (also on
\* a Mapper that never held an entry) does not fail and changes neither the
\* entries nor the counter.
DeleteIdempotent ==
  [][\A t \in Threads :
       (Removed(t) /\ origin[call[t].key].by \in {"none", "Delete"})
         => (call'[t].out = Void /\ TableUnchanged)]_vars

AbsentKeyDeleted ==
  \E t \in Threads :
    /\ pc[t] = "idle"
    /\ call[t].op \in DeleteOps
    /\ call[t].out = Void
    /\ origin[call[t].key] = Deleted(0)
    /\ m # EmptyMap

\* C10: MapPair on a Key that is present overwrites it without an error:
\* after MapPair(h, v1); MapPair(h, v2) Get(h) returns v2, the second call
\* adds no entry, and all other entries are unchanged.
MapPairOverwrites ==
  [][\A t \in Threads :
       /\ (Stored(t) /\ call[t].op = "MapPair")
            => /\ call'[t].out = Void
               /\ DOMAIN m' = (DOMAIN m) \cup {call[t].key}
               /\ m'[call[t].key] = call[t].val
               /\ \A x \in (DOMAIN m) \ {call[t].key} : m'[x] = m[x]
               /\ (call[t].key \in DOMAIN m
                     => Cardinality(DOMAIN m') = Cardinality(DOMAIN m))
       /\ LooksUp(t, "MapPair")]_vars

OverwrittenLookedUp ==
  \E t, u \in Threads :
    /\ pc[t] = "idle" /\ pc[u] = "idle"
    /\ call[t].op = "MapPair" /\ call[t].out = Void
    /\ call[u].op \in GetOps
    /\ call[u].key = call[t].key
    /\ call[u].out.kind = "value"
    /\ call[u].out.v # call[t].val
    /\ origin[call[u].key] = SetBy("MapPair", call[u].out.v)

\* C11: when Clear returns and no other call is in flight, the Mapper is as
\* a new one: Get of every Key fails with key-not-mapped, Delete of any Key
\* is a no-op, and the next MapValue returns the Key that the first MapValue
\* on a new Mapper returns.
ClearedIsFresh ==
  [][\A t \in Threads :
       ( /\ pc[t] = "Clear_zero" /\ pc'[t] = "idle"
         /\ \A u \in Threads \ {t} : pc[u] = "idle" )
         => /\ call'[t].out = Void
            /\ m' = EmptyMap /\ mNil' = TRUE /\ atomicKey' = 0
            /\ mux' = [w |-> 0, r |-> {}]
            /\ \A k \in Keys : ~MapIndex(m', k).ok /\ MapDelete(m', k) = m'
            /\ MapValueKey(AddUintptr(atomicKey', 2)) = MapValueKey(AddUintptr(0, 2))]_vars

ClearedAfterMapping ==
  \E t, u \in Threads :
    /\ pc[t] = "idle" /\ pc[u] = "idle"
    /\ call[t].op = "Clear" /\ call[t].out = Void
    /\ call[u].op = "MapValue" /\ call[u].out.kind = "key"
    /\ m = EmptyMap /\ mNil /\ atomicKey = 0

\* The Keys that n successive MapValue calls return from counter c, and the
\* counter they leave.
RECURSIVE SeqKeys(_, _)
SeqKeys(c, n) ==
  IF n = 0 THEN {}
  ELSE {MapValueKey(AddUintptr(c, 2))} \cup SeqKeys(AddUintptr(c, 2), n - 1)

RECURSIVE SeqCounter(_, _)
SeqCounter(c, n) == IF n = 0 THEN c ELSE SeqCounter(AddUintptr(c, 2), n - 1)

\* The outcome of the calls run one after another on a new Mapper: the
\* MapValue calls of P, then Clear, then the MapValue calls of S.
SeqOutcome(P, S) ==
  /\ {call[t].key : t \in P} = SeqKeys(0, Cardinality(P))
  /\ {call[t].key : t \in S} = SeqKeys(0, Cardinality(S))
  /\ atomicKey = SeqCounter(0, Cardinality(S))
  /\ DOMAIN m = {call[t].key : t \in S}
  /\ \A t \in S : m[call[t].key] = call[t].val

\* C12: Clear is atomic with respect to concurrent MapValue calls: when one
\* goroutine calls Clear and every other calls MapValue once on a new
\* Mapper, the returned Keys, the entries and the counter are, once all have
\* returned, those of some sequential order of the calls.
ClearIsAtomic ==
  LET C == {t \in Threads : call[t].op = "Clear"}
      V == {t \in Threads : call[t].op = "MapValue" /\ call[t].out.kind = "key"}
  IN ( /\ \A t \in Threads : pc[t] = "idle"
       /\ quota = MaxCalls - NThreads
       /\ Cardinality(C) = 1
       /\ C \cup V = Threads )
       => \E S \in SUBSET V : SeqOutcome(V \ S, S)

\* C17: atomicKey starts at zero, stays even, and changes only in the atomic
\* add of MapValue (by two) and in Clear (to zero). Get, doMap and Delete
\* leave it unchanged, Delete changes no entry but that of its Key, and the
\* Key of a MapValue call depends on the counter only, so a deleted synthetic
\* Key is not handed out again.
CounterChange(t) ==
  \/ /\ Began(t) /\ call'[t].op = "MapValue"
     /\ atomicKey' = AddUintptr(atomicKey, 2)
  \/ /\ pc[t] = "Clear_zero" /\ pc'[t] = "idle"
     /\ atomicKey' = 0

CounterOnlyGrows ==
  /\ atomicKey = 0
  /\ [](atomicKey % 2 = 0)
  /\ [][/\ atomicKey' # atomicKey => \E t \in Threads : CounterChange(t)
        /\ \A t \in Threads :
             /\ (Looked(t) \/ Stored(t) \/ Removed(t)) => atomicKey' = atomicKey
             /\ (Began(t) /\ call'[t].op # "MapValue") => atomicKey' = atomicKey
             /\ (Began(t) /\ pc'[t] = "doMap_Lock" /\ call'[t].op = "MapValue")
                  => call'[t].key = MapValueKey(AddUintptr(atomicKey, 2))
             /\ Removed(t)
                  => \A k \in Keys \ {call[t].key} : MapIndex(m', k) = MapIndex(m, k)]_vars

SyntheticKeyDeletedThenNext ==
  \E t, u \in Threads :
    /\ pc[t] = "idle" /\ pc[u] = "idle"
    /\ call[t].op \in DeleteOps /\ call[t].out = Void
    /\ origin[call[t].key].by = "Delete" /\ origin[call[t].key].val # 0
    /\ AndBit(call[t].key.v) # 0
    /\ call[u].op = "MapValue" /\ call[u].out.kind = "key"
    /\ call[u].key # call[t].key
    /\ atomicKey = 4

\* C20: for bits p with the low bit set that are mapped, GetPtr(p) returns
\* the mapped value and DeleteHandle(p) removes the entry, while DeletePtr(p)
\* panics with the unaligned-pointer message and changes nothing.
OddBits(p) == AndBit(p) # 0

BitAsymmetry ==
  [][\A t \in Threads :
       /\ ( /\ Looked(t) /\ call[t].op = "GetPtr" /\ OddBits(call[t].arg)
            /\ MapIndex(m, Key(call[t].arg)).ok )
            => call'[t].out = ValueOut(MapIndex(m, Key(call[t].arg)).val)
       /\ ( /\ Removed(t) /\ call[t].op = "DeleteHandle" /\ OddBits(call[t].arg)
            /\ MapIndex(m, Key(call[t].arg)).ok )
            => /\ call'[t].out = Void
               /\ ~MapIndex(m', Key(call[t].arg)).ok
       /\ (Began(t) /\ call'[t].op = "DeletePtr" /\ OddBits(call'[t].arg))
            => /\ call'[t].out = Panic("unaligned")
               /\ pc'[t] = "idle"
               /\ TableUnchanged]_vars

OddBitsDeletePtrRefused ==
  \E t, u \in Threads :
    /\ pc[t] = "idle" /\ pc[u] = "idle"
    /\ call[t].op = "DeletePtr" /\ OddBits(call[t].arg)
    /\ call[t].out = Panic("unaligned")
    /\ origin[Key(call[t].arg)].by = "MapValue"
    /\ MapIndex(m, Key(call[t].arg)).ok
    /\ call[u].op = "GetPtr" /\ call[u].arg = call[t].arg
    /\ call[u].out = ValueOut(MapIndex(m, Key(call[t].arg)).val)

\* C18: on a new Mapper the n-th MapValue call to do its atomic add returns
\* the Key with handle 2n+1 (while 2n+1 fits the word), so the first Key is 3
\* and n concurrent calls return the handles {3, 5, ..., 2n+1}.
Incremented == {t \in Threads : call[t].op # "none"}

\* The counter is that of a new Mapper after the calls made so far.
FromNew == atomicKey = 2 * Cardinality(Incremented)

NthKeyIsTwoNPlusOne ==
  /\ [](FromNew =>
          {Handle(call[t].key) : t \in Incremented} =
            {2 * n + 1 : n \in 1..Cardinality(Incremented)})
  /\ [][\A t \in Threads :
          LET n == Cardinality(Incremented) + 1
          IN ( /\ FromNew /\ 2 * n + 1 < WordSize
               /\ call[t].op = "none" /\ call'[t].op = "MapValue" )
               => /\ Handle(call'[t].key) = 2 * n + 1
                  /\ \A u \in Incremented : Handle(call[u].key) < Handle(call'[t].key)]_vars

AllReturnedFromNew ==
  /\ FromNew
  /\ Incremented = Threads
  /\ \A t \in Threads : pc[t] = "idle" /\ call[t].op = "Get"
  /\ \E t \in Threads : Handle(call[t].key) = 3
  /\ \E t \in Threads : Handle(call[t].key) = 2 * NThreads + 1

\* C19: a new Mapper on a word of WordBits bits hands out exactly
\* 2^(WordBits-1) synthetic Keys: each of the first 2^(WordBits-1) MapValue
\* calls returns a Key that no earlier call returned, and every later call
\* returns one of those Keys again.
Issued ==
  {k \in Keys : origin[k].by = "MapValue"}
    \cup {call[t].key : t \in {u \in Threads : call[u].op = "MapValue"}}

KeySpaceSize == WordSize \div 2

LookupKey(op, bits) ==
  IF op = "GetPtr" THEN KeyOfBits(bits) ELSE KeyFromHandle(bits)

LookupResult(op, mm, bits) == GetResult(mm, LookupKey(op, bits))

GetObservesWrite ==
  /\ [](\A t \in Threads :
          (pc[t] = "idle" /\ call[t].op = "Get") => call[t].out = ValueOut(call[t].val))
  /\ [][\A t \in Threads :
          Looked(t) => /\ MapIndex(m, call[t].key) = [ok |-> TRUE, val |-> call[t].val]
                       /\ call'[t].out = ValueOut(call[t].val)]_vars

EachObservedOwnWrite ==
  /\ \A t \in Threads :
       pc[t] = "idle" /\ call[t].op = "Get" /\ call[t].out = ValueOut(call[t].val)
  /\ \E t, u \in Threads :
       /\ origin[call[t].key].by = "MapValue"
       /\ origin[call[u].key].by = "MapPtrPair"
       /\ call[t].val # call[u].val

\* C14: no call blocks for ever. A goroutine that is in no call holds
\* neither lock (so every return and every panic, that of Get included, comes
\* after the unlock, and KeyFromPtr and MapValue panic holding no lock), the
\* write lock is held only inside a critical section of doMap, Delete or
\* Clear and the read lock only inside that of Get, some begun call can
\* always take a step, and under fair scheduling every begun call returns.
Critical == {"doMap_store", "Delete_delete", "Clear_nil", "Clear_zero"}

LockReleased ==
  \A t \in Threads :
    /\ pc[t] = "idle" => (mux.w # t /\ t \notin mux.r)
    /\ mux.w = t => (pc[t] \in Critical /\ mux.r = {})
    /\ t \in mux.r => (pc[t] = "Get_index" /\ mux.w = 0)

NoOperationBlocks ==
  /\ [](LockReleased)
  /\ []((\E t \in Threads : pc[t] # "idle") => (\E t \in Threads : ENABLED Step(t)))
  /\ \A t \in Threads : (pc[t] # "idle") ~> (pc[t] = "idle")

AllWaitedAndReturned ==
  /\ \A t \in Threads : pc[t] = "idle" /\ call[t].op # "none"
  /\ quota = 0
  /\ mux = [w |-> 0, r |-> {}]
  /\ \E t \in Threads : call[t].op \in GetOps /\ call[t].out = Panic("notmapped")
  /\ \E t \in Threads : call[t].op = "Clear" /\ call[t].out = Void

\* C15: two Mappers share no state. Every step of a call on one Mapper
\* leaves the entries, the counter and the lock of the other unchanged, so a
\* Get of a Key that has no entry in its own Mapper panics with
\* key-not-mapped whether or not the other Mapper maps the Key.
OnSameMapper == peer'.id = peer.id

InstancesShareNothing ==
  [][/\ OnSameMapper => peer' = peer
     /\ \A t \in Threads :
          (OnSameMapper /\ Looked(t) /\ ~MapIndex(m, call[t].key).ok)
            => call'[t].out = Panic("notmapped")]_vars

MappedInOtherOnly ==
  \E t, u \in Threads :
    /\ pc[t] = "idle" /\ call[t].op = "Get"
    /\ call[t].out = Panic("notmapped")
    /\ mNil
    /\ peer.pc[u] = "idle" /\ peer.call[u].op \in WriteOps
    /\ peer.call[u].key = call[t].key
    /\ MapIndex(peer.m, call[t].key).ok
    /\ quota = 0

\* C21: in the sync.Map-based Mapper, Get of a pointer that New returned
\* gives the value New was called with, and once Delete was called on the
\* pointer its entry is gone: Get of it panics with invalid-cgo-ptr (until
\* New hands the address out again).
PtrDeleteDeletes ==
  \A ptr \in Ptrs :
    /\ origin[Key(ptr)].by = "New"
         => PtrGetResult(m, ptr) = ValueOut(origin[Key(ptr)].val)
    /\ origin[Key(ptr)].by = "Delete"
         => /\ PtrGetResult(m, ptr) = Panic("invalidptr")
            /\ IfaceKey("*mapperKey", ptr) \notin DOMAIN m

====
